---- MODULE Spec2Model ----
(***************************************************************************)
(* Masters English pricing and application wizard (src/src/App.jsx).       *)
(* The App component is modelled as a state machine: its useState slots    *)
(* are the variables, every onClick / onChange / onSubmit handler is an    *)
(* action, and every suspension point of the async handleSubmit (the       *)
(* await of fetch, the await of res.json) is a position of an outstanding  *)
(* call.                                                                   *)
(***************************************************************************)
EXTENDS Integers, Sequences, FiniteSets, TLC

VARIABLES
    step,           \* "type" | "packages" | "details" | "apply"
    typeId,         \* null or a course type id
    packageId,      \* null or a package id
    currency,       \* currency code
    formData,       \* record of the six controlled fields
    isSubmitting,   \* BOOLEAN
    submitStatus,   \* null | "success" | "error"
    submitMessage,  \* text shown in the notice
    calls,          \* outstanding handleSubmit invocations, oldest first
    probe           \* a function of the component called on its own, with
                    \* its argument and result (NoProbe while the UI runs)

vars == <<step, typeId, packageId, currency, formData,
          isSubmitting, submitStatus, submitMessage, calls, probe>>

\* The component's own state, without the record of a direct call.
appVars == <<step, typeId, packageId, currency, formData,
             isSubmitting, submitStatus, submitMessage, calls>>

\* ---------------------------------------------------------------- bounds
\* No more than MaxInFlight handleSubmit invocations are suspended at once.
MaxInFlight == 2

\* ------------------------------------------------------------- constants
\* null in an id or status slot; none is the null of the derived lookups.
null == "null"
none == [none |-> TRUE]

COURSE_TYPES == <<
    [id |-> "main",      title |-> "Main Course"],
    [id |-> "conv",      title |-> "Conversational"],
    [id |-> "placement", title |-> "Free Placement Test"],
    [id |-> "trial",     title |-> "Free Trial"] >>

\* Texts that the code concatenates are sequences of characters.
CURRENCIES == [USD |-> [label |-> "USD", symbol |-> <<"$">>],
               KWD |-> [label |-> "KWD", symbol |-> <<"K", "W", "D", " ">>]]

Pkg(i, n, usd, kwd, t) ==
    [id |-> i, lessons |-> n, price |-> [USD |-> usd, KWD |-> kwd], title |-> t]

PACKAGES == [
    main |-> << Pkg("m1", 1, 15, 5, "Quick Start"),
                Pkg("m10", 10, 140, 45, "Starter Pack"),
                Pkg("m20", 20, 260, 80, "Momentum Month"),
                Pkg("m40", 40, 480, 150, "Consistency Plan"),
                Pkg("m80", 80, 880, 270, "Full Level Journey") >>,
    conv |-> << Pkg("c1", 1, 10, 3, "Warm-Up Chat"),
                Pkg("c10", 10, 90, 28, "Fluency Starter"),
                Pkg("c20", 20, 160, 50, "Talk-a-Lot Plan"),
                Pkg("c40", 40, 280, 86, "Conversation Pro") >>,
    placement |-> << Pkg("p1", 1, 0, 0, "Book a Free Placement Test") >>,
    trial |-> << Pkg("t1", 1, 0, 0, "Book a Free Trial") >> ]

NoProbe == [fn |-> "none"]

GENERIC_ERROR == "Submission failed. Please try again."
SUCCESS_MESSAGE == "Submitted! We will contact you by email with the next steps."

\* ---------------------------------------------------------------- helpers
\* Array.prototype.find: the first element satisfying the test, else none.
RECURSIVE FindFrom(_, _, _)
FindFrom(s, wanted, i) ==
    IF i > Len(s) THEN none
    ELSE IF s[i].id = wanted THEN s[i]
    ELSE FindFrom(s, wanted, i + 1)

Find(s, wanted) == FindFrom(s, wanted, 1)

TypeIds == {COURSE_TYPES[i].id : i \in 1..Len(COURSE_TYPES)}

\* Positions of the cards a package list can show.
PackagePositions == UNION {1..Len(PACKAGES[t]) : t \in TypeIds}

\* Field values are sequences of characters; <<>> is the empty string.
WS == " "

RECURSIVE TrimStart(_)
TrimStart(s) ==
    IF s = <<>> THEN s
    ELSE IF Head(s) = WS THEN TrimStart(Tail(s))
    ELSE s

RECURSIVE TrimEnd(_)
TrimEnd(s) ==
    IF s = <<>> THEN s
    ELSE IF s[Len(s)] = WS THEN TrimEnd(SubSeq(s, 1, Len(s) - 1))
    ELSE s

\* String.prototype.trim
Trim(s) == TrimEnd(TrimStart(s))

\* JavaScript truthiness of a string
Truthy(s) == s # <<>>

\* --------------------------------------------------------- derived values
selectedType ==
    Find(COURSE_TYPES, typeId)

\* PACKAGES[typeId] is undefined when typeId is no key of PACKAGES, and
\* undefined.find(...) throws.
TypeError == [threw |-> "TypeError"]

selectedPackage ==
    IF typeId = null THEN none
    ELSE IF typeId \notin DOMAIN PACKAGES THEN TypeError
    ELSE Find(PACKAGES[typeId], packageId)

safeCurrency ==
    IF currency \in DOMAIN CURRENCIES THEN currency ELSE "USD"

\* Variant: the placement test is not among the scheduled offers.
needsSchedule_noPlacement ==
    \/ (selectedType # none /\ selectedType.id = "trial")
    \/ (selectedPackage # none /\ selectedPackage.lessons = 1)

needsSchedule ==
    \/ (selectedType # none /\ selectedType.id = "trial")
    \/ (selectedType # none /\ selectedType.id = "placement")
    \/ (selectedPackage # none /\ selectedPackage.lessons = 1)

\* Number to string, for the non-negative whole amounts of the catalog.
RECURSIVE Digits(_)
Digits(n) ==
    IF n < 10 THEN <<SubSeq(<<"0", "1", "2", "3", "4", "5", "6", "7", "8", "9">>,
                            n + 1, n + 1)[1]>>
    ELSE Digits(n \div 10) \o Digits(n % 10)

money(amount) == CURRENCIES[safeCurrency].symbol \o Digits(amount)

\* Variant: the chain stops at the requested currency.
amountOf_noUsdFallback(pkg) ==
    IF safeCurrency \in DOMAIN pkg.price THEN pkg.price[safeCurrency]
    ELSE 0

\* pkg.price?.[safeCurrency] ?? pkg.price?.USD ?? 0
amountOf(pkg) ==
    IF safeCurrency \in DOMAIN pkg.price THEN pkg.price[safeCurrency]
    ELSE IF "USD" \in DOMAIN pkg.price THEN pkg.price["USD"]
    ELSE 0

FREE == <<"F", "r", "e", "e">>

\* Variant: no special case for a zero amount.
pkgTotal_noFree(pkg) ==
    IF pkg = none THEN <<>>
    ELSE money(amountOf(pkg))

pkgTotal(pkg) ==
    IF pkg = none THEN <<>>
    ELSE IF amountOf(pkg) = 0 THEN FREE
    ELSE money(amountOf(pkg))

\* Variant: the e-mail address is not trimmed.
isFormValid_emailUntrimmed ==
    /\ Truthy(Trim(formData.fullName))
    /\ Truthy(formData.email)
    /\ Truthy(Trim(formData.phone))
    /\ Truthy(Trim(formData.country))
    /\ (~needsSchedule \/ (/\ Truthy(Trim(formData.preferredDate))
                           /\ Truthy(Trim(formData.preferredTime))))

isFormValid ==
    /\ Truthy(Trim(formData.fullName))
    /\ Truthy(Trim(formData.email))
    /\ Truthy(Trim(formData.phone))
    /\ Truthy(Trim(formData.country))
    /\ (~needsSchedule \/ (/\ Truthy(Trim(formData.preferredDate))
                           /\ Truthy(Trim(formData.preferredTime))))

EmptyForm ==
    [fullName |-> <<>>, email |-> <<>>, phone |-> <<>>, country |-> <<>>,
     preferredDate |-> <<>>, preferredTime |-> <<>>]

\* ------------------------------------------------------------------ inputs
\* What the user leaves in the full-name input: nothing, blanks or text.
\* The other text inputs are driven with nothing or text; an
\* <input type="date"> / <input type="time"> holds "" or a valid value.
NameValues == { <<>>, <<WS>>, <<"a">> }
PlainValues == { <<>>, <<"a">> }
PickerValues == { <<>>, <<"1">> }

InputValues(f) ==
    IF f = "fullName" THEN NameValues
    ELSE IF f \in {"preferredDate", "preferredTime"} THEN PickerValues
    ELSE PlainValues

TextFields == {"fullName", "email", "phone", "country"}
ScheduleFields == {"preferredDate", "preferredTime"}

\* ------------------------------------------------------------------- Init
Init ==
    /\ step = "type"
    /\ typeId = null
    /\ packageId = null
    /\ currency = "USD"
    /\ formData = EmptyForm
    /\ isSubmitting = FALSE
    /\ submitStatus = null
    /\ submitMessage = ""
    /\ calls = <<>>
    /\ probe = NoProbe

\* ------------------------------------------------------------- navigation
\* Variant: the handler preselects the first package of the chosen type
\* instead of clearing the package selection.
SelectType_preselects(t) ==
    /\ step = "type"
    /\ typeId' = t
    /\ packageId' = PACKAGES[t][1].id
    /\ step' = "packages"
    /\ UNCHANGED <<probe, currency, formData, isSubmitting, submitStatus,
                   submitMessage, calls>>

\* Step 1, "View packages" of course type t.
SelectType(t) ==
    /\ step = "type"
    /\ typeId' = t
    /\ packageId' = null
    /\ step' = "packages"
    /\ UNCHANGED <<probe, currency, formData, isSubmitting, submitStatus,
                   submitMessage, calls>>

\* Step 2, "Back".
BackFromPackages ==
    /\ step = "packages"
    /\ selectedType # none
    /\ packageId' = null
    /\ step' = "type"
    /\ UNCHANGED <<probe, typeId, currency, formData, isSubmitting, submitStatus,
                   submitMessage, calls>>

\* Variant: the cards are always those of the main course.
SelectPackage_wrongList(k) ==
    /\ step = "packages"
    /\ selectedType # none
    /\ k \in 1..Len(PACKAGES["main"])
    /\ packageId' = PACKAGES["main"][k].id
    /\ step' = "details"
    /\ UNCHANGED <<probe, typeId, currency, formData, isSubmitting, submitStatus,
                   submitMessage, calls>>

\* Variant: "View details" opens the application form directly.
SelectPackage_skipsDetails(k) ==
    /\ step = "packages"
    /\ selectedType # none
    /\ k \in 1..Len(PACKAGES[selectedType.id])
    /\ packageId' = PACKAGES[selectedType.id][k].id
    /\ step' = "apply"
    /\ UNCHANGED <<probe, typeId, currency, formData, isSubmitting, submitStatus,
                   submitMessage, calls>>

\* Step 2, "View details" of the package at position k of the shown list.
SelectPackage(k) ==
    /\ step = "packages"
    /\ selectedType # none
    /\ k \in 1..Len(PACKAGES[selectedType.id])
    /\ packageId' = PACKAGES[selectedType.id][k].id
    /\ step' = "details"
    /\ UNCHANGED <<probe, typeId, currency, formData, isSubmitting, submitStatus,
                   submitMessage, calls>>

\* Step 3, "Back".
BackFromDetails ==
    /\ step = "details"
    /\ selectedType # none
    /\ selectedPackage # none
    /\ step' = "packages"
    /\ UNCHANGED <<probe, typeId, packageId, currency, formData, isSubmitting,
                   submitStatus, submitMessage, calls>>

\* Step 3, "Apply now".
ApplyNow ==
    /\ step = "details"
    /\ selectedType # none
    /\ selectedPackage # none
    /\ step' = "apply"
    /\ UNCHANGED <<probe, typeId, packageId, currency, formData, isSubmitting,
                   submitStatus, submitMessage, calls>>

\* Variant: leaving the form discards the shown result.
BackFromApply_clearsResult ==
    /\ step = "apply"
    /\ selectedType # none
    /\ selectedPackage # none
    /\ step' = "details"
    /\ submitStatus' = null
    /\ submitMessage' = ""
    /\ UNCHANGED <<probe, typeId, packageId, currency, formData, isSubmitting,
                   calls>>

\* Step 4, "Back".
BackFromApply ==
    /\ step = "apply"
    /\ selectedType # none
    /\ selectedPackage # none
    /\ step' = "details"
    /\ UNCHANGED <<probe, typeId, packageId, currency, formData, isSubmitting,
                   submitStatus, submitMessage, calls>>

\* Currency picker buttons (always rendered).
SetCurrency(c) ==
    /\ c \in {"USD", "KWD"}
    /\ currency' = c
    /\ UNCHANGED <<probe, step, typeId, packageId, formData, isSubmitting,
                   submitStatus, submitMessage, calls>>

\* onChange of one of the four always-shown inputs of the form.
SetTextField(f, v) ==
    /\ step = "apply"
    /\ selectedType # none
    /\ selectedPackage # none
    /\ f \in TextFields
    /\ v \in InputValues(f)
    /\ formData' = [formData EXCEPT ![f] = v]
    /\ UNCHANGED <<probe, step, typeId, packageId, currency, isSubmitting,
                   submitStatus, submitMessage, calls>>

\* onChange of a schedule input, rendered only while needsSchedule.
SetScheduleField(f, v) ==
    /\ step = "apply"
    /\ selectedType # none
    /\ selectedPackage # none
    /\ needsSchedule
    /\ f \in ScheduleFields
    /\ v \in InputValues(f)
    /\ formData' = [formData EXCEPT ![f] = v]
    /\ UNCHANGED <<probe, step, typeId, packageId, currency, isSubmitting,
                   submitStatus, submitMessage, calls>>

\* --------------------------------------------------------------- reset
\* Each suspended invocation carries a history mark, stale, that no handler
\* reads: it is set once reset has run, or a newer handleSubmit has started,
\* since the invocation began.  The code keeps no such mark and cannot
\* cancel a fetch; the mark only lets properties tell attempts apart.
Superseded(cs) == [i \in 1..Len(cs) |-> [cs[i] EXCEPT !.stale = TRUE]]

\* Variant: reset forgets setIsSubmitting(false).
reset_keepsSubmitting ==
    /\ step' = "type"
    /\ typeId' = null
    /\ packageId' = null
    /\ formData' = EmptyForm
    /\ submitStatus' = null
    /\ submitMessage' = ""
    /\ calls' = Superseded(calls)
    /\ UNCHANGED <<probe, currency, isSubmitting>>

\* Variant: reset forgets setStep("type").
reset_keepsStep ==
    /\ typeId' = null
    /\ packageId' = null
    /\ formData' = EmptyForm
    /\ isSubmitting' = FALSE
    /\ submitStatus' = null
    /\ submitMessage' = ""
    /\ calls' = Superseded(calls)
    /\ UNCHANGED <<probe, currency, step>>

\* Brand button.
reset ==
    /\ step' = "type"
    /\ typeId' = null
    /\ packageId' = null
    /\ formData' = EmptyForm
    /\ isSubmitting' = FALSE
    /\ submitStatus' = null
    /\ submitMessage' = ""
    /\ calls' = Superseded(calls)
    /\ UNCHANGED <<currency, probe>>

\* ------------------------------------------------------------ submission
\* The form's submit button is rendered on step 4 and is disabled while
\* the form is invalid or a submission is marked in flight.
\* Variant: the submit button is disabled only while submitting.
SubmitEnabled_ignoresValidity ==
    /\ step = "apply"
    /\ selectedType # none
    /\ selectedPackage # none
    /\ ~isSubmitting

SubmitEnabled ==
    /\ step = "apply"
    /\ selectedType # none
    /\ selectedPackage # none
    /\ isFormValid
    /\ ~isSubmitting

\* Variant: handleSubmit without its guard on the selection.
handleSubmitBody_noGuard ==
    /\ isSubmitting' = TRUE
    /\ submitStatus' = null
    /\ submitMessage' = ""
    /\ calls' = Append(Superseded(calls), [pc |-> "fetch", stale |-> FALSE])
    /\ UNCHANGED <<step, typeId, packageId, currency, formData>>

\* handleSubmit up to its first await: the guard, the three setters and the
\* fetch call, which leaves the invocation suspended.
handleSubmitBody ==
    /\ IF selectedType = none \/ selectedPackage = none
       THEN UNCHANGED <<isSubmitting, submitStatus, submitMessage, calls>>
       ELSE /\ isSubmitting' = TRUE
            /\ submitStatus' = null
            /\ submitMessage' = ""
            /\ calls' = Append(Superseded(calls),
                               [pc |-> "fetch", stale |-> FALSE])
    /\ UNCHANGED <<step, typeId, packageId, currency, formData>>

\* The form's onSubmit, reached through the submit button.
handleSubmit ==
    /\ SubmitEnabled
    /\ Len(calls) < MaxInFlight
    /\ handleSubmitBody
    /\ UNCHANGED probe

Without(cs, i) == SubSeq(cs, 1, i - 1) \o SubSeq(cs, i + 1, Len(cs))

\* Variant: setIsSubmitting(false) sits at the end of try, not in finally.
Caught_noFinally(message) ==
    /\ submitStatus' = "error"
    /\ submitMessage' = (IF message # "" THEN message ELSE GENERIC_ERROR)
    /\ UNCHANGED isSubmitting

\* Variant: the catch shows err.message without the || fallback.
Caught_rawMessage(message) ==
    /\ submitStatus' = "error"
    /\ submitMessage' = message
    /\ isSubmitting' = FALSE

\* catch (err) followed by finally.
Caught(message) ==
    /\ submitStatus' = "error"
    /\ submitMessage' = (IF message # "" THEN message ELSE GENERIC_ERROR)
    /\ isSubmitting' = FALSE

\* Variant: setIsSubmitting(false) sits in catch, not in finally.
fetchOk_keepsSubmitting(i) ==
    /\ i \in 1..Len(calls)
    /\ calls[i].pc = "fetch"
    /\ submitStatus' = "success"
    /\ submitMessage' = SUCCESS_MESSAGE
    /\ calls' = Without(calls, i)
    /\ UNCHANGED <<probe, step, typeId, packageId, currency, formData, isSubmitting>>

\* fetch resolved with res.ok: the success setters, then finally.
fetchOk(i) ==
    /\ i \in 1..Len(calls)
    /\ calls[i].pc = "fetch"
    /\ submitStatus' = "success"
    /\ submitMessage' = SUCCESS_MESSAGE
    /\ isSubmitting' = FALSE
    /\ calls' = Without(calls, i)
    /\ UNCHANGED <<probe, step, typeId, packageId, currency, formData>>

\* fetch resolved with !res.ok: the invocation now awaits res.json().
fetchNotOk(i) ==
    /\ i \in 1..Len(calls)
    /\ calls[i].pc = "fetch"
    /\ calls' = [calls EXCEPT ![i].pc = "json"]
    /\ UNCHANGED <<probe, step, typeId, packageId, currency, formData,
                   isSubmitting, submitStatus, submitMessage>>

\* Messages a rejected fetch promise can carry ("" when it carries none).
ExceptionMessages == {"Failed to fetch", ""}

\* fetch rejected: control goes straight to catch.
fetchThrows(i, m) ==
    /\ i \in 1..Len(calls)
    /\ calls[i].pc = "fetch"
    /\ m \in ExceptionMessages
    /\ Caught(m)
    /\ calls' = Without(calls, i)
    /\ UNCHANGED <<probe, step, typeId, packageId, currency, formData>>

\* Error bodies of a rejected delivery.  parsed = FALSE: res.json() rejects
\* (no body, or not JSON).  hasErrors = FALSE: no errors member.  An entry
\* of errors is an object with or without a message, or not an object.
Err(m) == [isObject |-> TRUE, hasMessage |-> TRUE, message |-> m]
ErrNoMessage == [isObject |-> TRUE, hasMessage |-> FALSE, message |-> ""]
ErrNull == [isObject |-> FALSE, hasMessage |-> FALSE, message |-> ""]

Body(es) == [parsed |-> TRUE, hasErrors |-> TRUE, errors |-> es]
BodyUnparsable == [parsed |-> FALSE, hasErrors |-> FALSE, errors |-> <<>>]
BodyNoErrors == [parsed |-> TRUE, hasErrors |-> FALSE, errors |-> <<>>]

Bodies ==
    { BodyUnparsable, BodyNoErrors, Body(<<>>),
      Body(<<Err("Invalid email")>>),
      Body(<<Err("Invalid email"), Err("Invalid phone")>>),
      Body(<<Err(""), Err("Invalid phone")>>),
      Body(<<ErrNoMessage, Err("Invalid phone")>>),
      Body(<<ErrNull>>) }

\* Variant: the last entry of errors is read instead of the first.
ErrText_lastError(body) ==
    IF ~body.parsed THEN GENERIC_ERROR
    ELSE IF ~body.hasErrors \/ Len(body.errors) = 0 THEN GENERIC_ERROR
    ELSE IF ~body.errors[Len(body.errors)].isObject THEN GENERIC_ERROR
    ELSE IF /\ body.errors[Len(body.errors)].hasMessage
            /\ body.errors[Len(body.errors)].message # ""
         THEN body.errors[Len(body.errors)].message
    ELSE GENERIC_ERROR

\* The text handed to new Error() in the !res.ok branch.
ErrText(body) ==
    IF ~body.parsed THEN GENERIC_ERROR
    ELSE IF ~body.hasErrors \/ Len(body.errors) = 0 THEN GENERIC_ERROR
    ELSE IF ~body.errors[1].isObject THEN GENERIC_ERROR
    ELSE IF body.errors[1].hasMessage /\ body.errors[1].message # ""
         THEN body.errors[1].message
    ELSE GENERIC_ERROR

\* res.json() settled: errText is computed and thrown, then catch, finally.
jsonSettled(i, body) ==
    /\ i \in 1..Len(calls)
    /\ calls[i].pc = "json"
    /\ body \in Bodies
    /\ Caught(ErrText(body))
    /\ calls' = Without(calls, i)
    /\ UNCHANGED <<probe, step, typeId, packageId, currency, formData>>

\* ------------------------------------------------------------------- Next
Next ==
    \/ \E t \in TypeIds : SelectType(t)
    \/ BackFromPackages
    \/ \E k \in PackagePositions : SelectPackage(k)
    \/ BackFromDetails
    \/ ApplyNow
    \/ BackFromApply
    \/ \E c \in {"USD", "KWD"} : SetCurrency(c)
    \/ \E f \in TextFields : \E v \in InputValues(f) : SetTextField(f, v)
    \/ \E f \in ScheduleFields : \E v \in InputValues(f) : SetScheduleField(f, v)
    \/ reset
    \/ handleSubmit
    \/ \E i \in 1..MaxInFlight : fetchOk(i)
    \/ \E i \in 1..MaxInFlight : fetchNotOk(i)
    \/ \E i \in 1..MaxInFlight, m \in ExceptionMessages : fetchThrows(i, m)
    \/ \E i \in 1..MaxInFlight, b \in Bodies : jsonSettled(i, b)

Spec == Init /\ [][Next]_vars

\* ------------------------------------------------ functions on their own
\* CallSpec calls single functions of the component with arguments of
\* their declared shape, including values that the rendered UI never hands
\* them: a selection that does not resolve, a currency code outside
\* CURRENCIES, a package without a price for a currency, blank fields.
\* probe names the function, holds its package argument, and receives the
\* result.
Codes == {"USD", "KWD", "EUR"}

Priced(i, n, pr) == [id |-> i, lessons |-> n, price |-> pr, title |-> "x"]
NoPrices == [c \in {} |-> 0]

CatalogPackages == UNION {{PACKAGES[t][k] : k \in 1..Len(PACKAGES[t])} : t \in TypeIds}

TestPackages ==
    CatalogPackages \cup
    { Priced("x1", 1, [USD |-> 15]),
      Priced("x2", 2, [KWD |-> 5]),
      Priced("x3", 3, NoPrices),
      Priced("x4", 4, [USD |-> 0, KWD |-> 5]),
      Priced("x5", 5, [USD |-> 15, KWD |-> 0]),
      Priced("x6", 6, [USD |-> 0]),
      Priced("x7", 7, [USD |-> 15, EUR |-> 99]) }

TotalInit ==
    /\ step = "type"
    /\ typeId = null
    /\ packageId = null
    /\ currency \in Codes
    /\ formData = EmptyForm
    /\ isSubmitting = FALSE
    /\ submitStatus = null
    /\ submitMessage = ""
    /\ calls = <<>>
    /\ \E pkg \in TestPackages :
          probe = [fn |-> "pkgTotal", pkg |-> pkg, done |-> FALSE,
                   amount |-> 0, text |-> <<>>]

\* pkgTotal(pkg), and the amount it resolves, under the current currency.
callPkgTotal ==
    /\ probe.fn = "pkgTotal"
    /\ ~probe.done
    /\ probe' = [probe EXCEPT !.done = TRUE,
                              !.amount = amountOf(probe.pkg),
                              !.text = pkgTotal(probe.pkg)]
    /\ UNCHANGED appVars

BlankOrText == { <<>>, <<WS>>, <<WS, "a", WS>> }
BlankOrPicked == { <<>>, <<WS>>, <<"1">> }

CatalogSelections ==
    UNION {{<<t, PACKAGES[t][k].id>> : k \in 1..Len(PACKAGES[t])} : t \in TypeIds}

ValidInit ==
    /\ step = "apply"
    /\ \E sel \in CatalogSelections : typeId = sel[1] /\ packageId = sel[2]
    /\ currency = "USD"
    /\ formData \in [fullName : BlankOrText, email : BlankOrText,
                      phone : BlankOrText, country : BlankOrText,
                      preferredDate : BlankOrPicked,
                      preferredTime : BlankOrPicked]
    /\ isSubmitting = FALSE
    /\ submitStatus = null
    /\ submitMessage = ""
    /\ calls = <<>>
    /\ probe = [fn |-> "isFormValid", done |-> FALSE, out |-> FALSE]

\* isFormValid, read as the submit button reads it (!isFormValid).
callIsFormValid ==
    /\ probe.fn = "isFormValid"
    /\ ~probe.done
    /\ probe' = [probe EXCEPT !.done = TRUE, !.out = isFormValid]
    /\ UNCHANGED appVars

\* JSON values: a string, a number, or undefined.
Str(s) == [str |-> s]
Num(n) == [num |-> n]
undefined == [undefined |-> TRUE]

PayloadOf(schedDate, schedTime) ==
    [fullName          |-> Str(formData.fullName),
     email             |-> Str(formData.email),
     phone             |-> Str(formData.phone),
     country           |-> Str(formData.country),
     preferredDate     |-> Str(schedDate),
     preferredTime     |-> Str(schedTime),
     courseType        |-> Str(selectedType.title),
     courseTypeId      |-> Str(selectedType.id),
     packageTitle      |-> Str(selectedPackage.title),
     packageId         |-> Str(selectedPackage.id),
     lessons           |-> Num(selectedPackage.lessons),
     currency          |-> Str(safeCurrency),
     totalPrice        |-> Num(amountOf(selectedPackage)),
     displayTotalPrice |-> Str(pkgTotal(selectedPackage))]

\* Variant: the schedule fields are sent as typed.
payload_scheduleAsTyped ==
    PayloadOf(formData.preferredDate, formData.preferredTime)

\* Variant: the currency state is sent as it is.
payload_rawCurrency ==
    [PayloadOf(IF needsSchedule THEN formData.preferredDate ELSE <<>>,
               IF needsSchedule THEN formData.preferredTime ELSE <<>>)
        EXCEPT !.currency = Str(currency)]

\* The object built in handleSubmit (displayPricePerLesson, the text of
\* pkgPer, is left out).
payload ==
    PayloadOf(IF needsSchedule THEN formData.preferredDate ELSE <<>>,
              IF needsSchedule THEN formData.preferredTime ELSE <<>>)

\* JSON.stringify(obj): a key whose value is undefined is not written.
Stringify(obj) ==
    [k \in {key \in DOMAIN obj : obj[key] # undefined} |-> obj[k]]

\* Selections under which a lookup yields none.
UnresolvedSelections ==
    { <<null, null>>, <<null, "m1">>, <<"main", null>>,
      <<"main", "c1">>, <<"trial", "p1">>, <<"conv", "zz">> }

FilledForm ==
    [fullName |-> <<"a">>, email |-> <<"a">>, phone |-> <<"a">>,
     country |-> <<"a">>, preferredDate |-> <<"1">>, preferredTime |-> <<"1">>]

HandlerInit ==
    /\ step = "apply"
    /\ \E sel \in UnresolvedSelections \cup CatalogSelections :
          typeId = sel[1] /\ packageId = sel[2]
    /\ currency \in Codes
    /\ formData \in {FilledForm, EmptyForm}
    /\ isSubmitting = FALSE
    /\ submitStatus \in {null, "error"}
    /\ submitMessage = (IF submitStatus = null THEN "" ELSE GENERIC_ERROR)
    /\ calls = <<>>
    /\ probe = [fn |-> "handleSubmit", done |-> FALSE, sent |-> <<>>]

\* handleSubmit(e) called as a function, not through the submit button;
\* probe.sent lists the request bodies handed to fetch.
callHandleSubmit ==
    /\ probe.fn = "handleSubmit"
    /\ Len(calls) < MaxInFlight
    /\ handleSubmitBody
    /\ probe' = [probe EXCEPT
                    !.done = TRUE,
                    !.sent = IF selectedType = none \/ selectedPackage = none
                             THEN @
                             ELSE Append(@, Stringify(payload))]

\* Ids of the catalog, and one that the catalog does not have.
AnyTypeIds == {null, "zz"} \cup TypeIds
AnyPackageIds == {null, "zz", "m1", "c10", "p1", "t1"}

LookupInit ==
    /\ step = "type"
    /\ typeId \in AnyTypeIds
    /\ packageId \in AnyPackageIds
    /\ currency \in {"USD", "KWD"}
    /\ formData = EmptyForm
    /\ isSubmitting = FALSE
    /\ submitStatus = null
    /\ submitMessage = ""
    /\ calls = <<>>
    /\ probe = [fn |-> "lookup", done |-> FALSE, type |-> none, pkg |-> none]

\* The two useMemo callbacks, run under the current typeId and packageId.
callLookups ==
    /\ probe.fn = "lookup"
    /\ ~probe.done
    /\ probe' = [probe EXCEPT !.done = TRUE,
                              !.type = selectedType,
                              !.pkg = selectedPackage]
    /\ UNCHANGED appVars

CallInit == TotalInit \/ ValidInit \/ HandlerInit \/ LookupInit

CallNext == callPkgTotal \/ callIsFormValid \/ callHandleSubmit \/ callLookups

CallSpec == CallInit /\ [][CallNext]_vars

\* The delivery collaborator answers every call, and res.json() settles.
FetchSettles == \E i \in 1..MaxInFlight :
                   \/ fetchOk(i)
                   \/ fetchNotOk(i)
                   \/ \E m \in ExceptionMessages : fetchThrows(i, m)

JsonSettles == \E i \in 1..MaxInFlight : \E b \in Bodies : jsonSettled(i, b)

FairSpec == Spec /\ WF_vars(FetchSettles) /\ WF_vars(JsonSettles)

\* A handleSubmit invocation runs to its end (try, catch, finally done).
Completes(i) ==
    \/ fetchOk(i)
    \/ \E m \in ExceptionMessages : fetchThrows(i, m)
    \/ \E b \in Bodies : jsonSettled(i, b)

Result == <<submitStatus, submitMessage, isSubmitting>>

\* ------------------------------------------------------------------ C1
Cleared ==
    /\ step = "type"
    /\ typeId = null
    /\ packageId = null
    /\ formData.fullName = <<>>
    /\ formData.email = <<>>
    /\ formData.phone = <<>>
    /\ formData.country = <<>>
    /\ formData.preferredDate = <<>>
    /\ formData.preferredTime = <<>>
    /\ submitStatus = null
    /\ submitMessage = ""
    /\ isSubmitting = FALSE

\* C1: reset is enabled in every reachable state, and right after it the
\* step is "type", no type or package is selected, the six fields are
\* empty, the result is idle with an empty message and nothing is marked
\* in flight.
C1_ResetClears ==
    /\ [](ENABLED reset)
    /\ [][reset => Cleared']_vars

\* A reset has run while a submission was suspended.
C1_Witness ==
    /\ Cleared
    /\ Len(calls) > 0
    /\ \A i \in 1..Len(calls) : calls[i].stale

\* ------------------------------------------------------------------ C2
\* C2: the completion of a delivery that is not the latest attempt, or that
\* was in flight when reset ran, leaves the result, its message and the
\* in-flight flag unchanged.
C2_StaleOutcomeIgnored ==
    [][\A i \in 1..Len(calls) :
          (calls[i].stale /\ Completes(i)) => UNCHANGED Result]_vars

\* ------------------------------------------------------------------ C3
\* C3: at most one delivery is outstanding, and submit is disabled while
\* one is.
C3_OneOutstanding ==
    /\ Len(calls) <= 1
    /\ (Len(calls) = 1 => ~SubmitEnabled)

\* ------------------------------------------------------------------ C4
PackageIdsOf(t) == {PACKAGES[t][k].id : k \in 1..Len(PACKAGES[t])}

\* C4: a selected package id is the id of a package listed under the
\* selected type id.
C4_PackageUnderType ==
    packageId # null =>
        /\ typeId # null
        /\ typeId \in DOMAIN PACKAGES
        /\ packageId \in PackageIdsOf(typeId)

\* Back on the package list with the package of an earlier visit retained.
C4_Witness ==
    /\ step = "packages"
    /\ typeId = "conv"
    /\ packageId = "c20"

\* ------------------------------------------------------------------ C5
\* C5: the step shown always has the selection it needs.
C5_StepHasSelection ==
    /\ step = "packages" => selectedType # none
    /\ step \in {"details", "apply"} =>
           (selectedType # none /\ selectedPackage # none)

\* The form is shown for a resolved type and package after a failed attempt.
C5_Witness ==
    /\ step = "apply"
    /\ selectedType # none
    /\ selectedPackage # none
    /\ selectedPackage.id = "m80"
    /\ submitStatus = "error"

\* ------------------------------------------------------------------ C6
StepEdge ==
    \/ step = "type" /\ step' = "packages" /\ \E t \in TypeIds : SelectType(t)
    \/ step = "packages" /\ step' = "type" /\ BackFromPackages
    \/ step = "packages" /\ step' = "details"
           /\ \E k \in PackagePositions : SelectPackage(k)
    \/ step = "details" /\ step' = "packages" /\ BackFromDetails
    \/ step = "details" /\ step' = "apply" /\ ApplyNow
    \/ step = "apply" /\ step' = "details" /\ BackFromApply
    \/ step' = "type" /\ reset

\* C6: the step starts at "type" and changes only along the listed edges;
\* submit and the settling of a delivery never change it.
C6_StepEdges ==
    /\ step = "type"
    /\ [][step' # step => StepEdge]_vars
    /\ [][step' # step => ~(handleSubmit \/ FetchSettles \/ JsonSettles)]_vars

\* A submission was started and answered on the form, which is still shown.
C6_Witness ==
    /\ step = "apply"
    /\ submitStatus = "success"
    /\ calls = <<>>

\* ------------------------------------------------------------------ C7
\* C7: choosing a course type leaves no package selected.
C7_SelectTypeClearsPackage ==
    [][(\E t \in TypeIds : SelectType(t)) => packageId' = null]_vars

\* A type was chosen after the form had been reached (fields are only
\* typed on the form, and only reset empties them).
C7_Witness ==
    /\ step = "packages"
    /\ typeId = "placement"
    /\ packageId = null
    /\ formData.fullName = <<"a">>

\* ------------------------------------------------------------------ C8
Terminal == submitStatus \in {"success", "error"}

\* C8: whenever a submission is marked in flight a delivery is outstanding,
\* an outstanding delivery leads to a terminal result with nothing marked
\* in flight (so the flag is never left set forever), and whenever an
\* invocation ends, on either path, the result is terminal and the flag is
\* cleared.
C8_SubmissionTerminates ==
    /\ [](isSubmitting => calls # <<>>)
    /\ (calls # <<>>) ~> (Terminal /\ ~isSubmitting)
    /\ [][Len(calls') < Len(calls) => (Terminal' /\ ~isSubmitting')]_vars

\* The exception path has ended with the flag cleared.
C8_Witness ==
    /\ submitStatus = "error"
    /\ submitMessage = "Failed to fetch"
    /\ ~isSubmitting
    /\ calls = <<>>

\* ------------------------------------------------------------------ C9
\* C9: an acknowledged delivery sets the result to success with the fixed
\* confirmation message and clears the in-flight flag; a success result
\* never carries another message.
C9_AcceptedIsSuccess ==
    /\ [](submitStatus = "success" =>
            (submitMessage = SUCCESS_MESSAGE /\ ~isSubmitting))
    /\ [][Len(calls') < Len(calls) =>
            \A i \in 1..Len(calls) :
               fetchOk(i) => /\ submitStatus' = "success"
                             /\ submitMessage' = SUCCESS_MESSAGE
                             /\ isSubmitting' = FALSE]_vars

\* Success is shown for a single paid lesson with nothing outstanding.
C9_Witness ==
    /\ submitStatus = "success"
    /\ submitMessage = SUCCESS_MESSAGE
    /\ ~isSubmitting
    /\ packageId = "m1"
    /\ calls = <<>>

\* ----------------------------------------------------------------- C10
\* The failure text the rejection of a delivery is to show.
RejectionText(b) ==
    IF /\ b.parsed
       /\ b.hasErrors
       /\ Len(b.errors) >= 1
       /\ b.errors[1].isObject
       /\ b.errors[1].hasMessage
       /\ b.errors[1].message # ""
    THEN b.errors[1].message
    ELSE GENERIC_ERROR

\* C10: a rejected delivery ends in a failure whose text is the message of
\* the first structured error when there is one and it is not empty, and
\* the generic text in every other case.
C10_RejectionText ==
    [][Len(calls') < Len(calls) =>
          \A i \in 1..Len(calls) : \A b \in Bodies :
             jsonSettled(i, b) => /\ submitStatus' = "error"
                                  /\ submitMessage' = RejectionText(b)]_vars

\* The first error's message is shown.
C10_Witness ==
    /\ submitStatus = "error"
    /\ submitMessage = "Invalid email"

\* ----------------------------------------------------------------- C11
\* C11: a delivery that throws ends in a failure whose text is the
\* exception's message when it carries one and the generic text when it
\* carries none; a rejection without a readable body ends in a failure
\* with the generic text.
C11_TransportFailureText ==
    [][Len(calls') < Len(calls) =>
          \A i \in 1..Len(calls) :
             /\ \A m \in ExceptionMessages :
                   fetchThrows(i, m) =>
                      /\ submitStatus' = "error"
                      /\ (m = "" => submitMessage' = GENERIC_ERROR)
                      /\ (m # "" => submitMessage' = m)
             /\ jsonSettled(i, BodyUnparsable) =>
                      /\ submitStatus' = "error"
                      /\ submitMessage' = GENERIC_ERROR]_vars

\* A failure with the generic text is shown on the form of a free trial.
C11_Witness ==
    /\ submitStatus = "error"
    /\ submitMessage = GENERIC_ERROR
    /\ step = "apply"
    /\ typeId = "trial"

\* ----------------------------------------------------------------- C12
\* The current attempt: the newest invocation, if nothing superseded it.
AttemptInFlight == \E i \in 1..Len(calls) : ~calls[i].stale

\* C12: from the start of a submit attempt until its delivery completes the
\* result is neither success nor failure and the message is empty.
C12_FreshWhileInFlight ==
    AttemptInFlight => (submitStatus = null /\ submitMessage = "")

\* ----------------------------------------------------------------- C13
Unresolved == selectedType = none \/ selectedPackage = none

\* C13: called while the type or the package does not resolve, handleSubmit
\* changes nothing: flag, result, message, step, selection and fields stay
\* as they are and no delivery is issued.
C13_SubmitGuardNoOp ==
    [][(probe.fn = "handleSubmit" /\ Unresolved) => UNCHANGED appVars]_vars

\* handleSubmit has returned under a package id of another course type,
\* with a filled form and an earlier failure still shown.
C13_Witness ==
    /\ probe.fn = "handleSubmit"
    /\ probe.done
    /\ typeId = "main"
    /\ packageId = "c1"
    /\ formData = FilledForm
    /\ submitStatus = "error"
    /\ calls = <<>>

\* ----------------------------------------------------------------- C14
\* The rule as stated over the catalog: the chosen type is the trial or the
\* placement test, or the chosen package of the chosen type has one lesson.
SchedulingRequired ==
    \/ typeId \in {"trial", "placement"}
    \/ /\ typeId \in TypeIds
       /\ \E k \in 1..Len(PACKAGES[typeId]) :
             /\ PACKAGES[typeId][k].id = packageId
             /\ PACKAGES[typeId][k].lessons = 1

\* C14: needsSchedule is true exactly for the trial, the placement test and
\* one-lesson packages, and false for every other catalog selection; the
\* right-hand side reads typeId and packageId only, so currency, fields and
\* step have no part in it.
C14_NeedsSchedule == needsSchedule <=> SchedulingRequired

\* A ten-lesson package of the main course on the form, prices in KWD.
C14_Witness ==
    /\ step = "apply"
    /\ typeId = "main"
    /\ packageId = "m10"
    /\ currency = "KWD"
    /\ formData.preferredDate = <<"1">>
    /\ ~needsSchedule

\* ----------------------------------------------------------------- C15
NonBlank(s) == \E k \in 1..Len(s) : s[k] # WS

ReadyToSubmit ==
    /\ NonBlank(formData.fullName)
    /\ NonBlank(formData.email)
    /\ NonBlank(formData.phone)
    /\ NonBlank(formData.country)
    /\ (SchedulingRequired => /\ NonBlank(formData.preferredDate)
                              /\ NonBlank(formData.preferredTime))

\* C15: isFormValid is true if and only if name, e-mail, phone and country
\* each hold something other than whitespace and, when scheduling is
\* required, so do date and time; when it is not required, date and time
\* have no influence.
C15_IsFormValid ==
    (probe.fn = "isFormValid" /\ probe.done) => (probe.out <=> ReadyToSubmit)

\* A valid form with padded text and blank schedule fields under a
\* ten-lesson package.
C15_Witness ==
    /\ probe.fn = "isFormValid"
    /\ probe.done
    /\ probe.out
    /\ packageId = "c10"
    /\ formData.fullName = <<WS, "a", WS>>
    /\ formData.preferredDate = <<WS>>
    /\ formData.preferredTime = <<>>

\* ----------------------------------------------------------------- C16
UsdOrZero(pkg) ==
    IF "USD" \in DOMAIN pkg.price THEN pkg.price["USD"] ELSE 0

\* C16: for a package without a price in the chosen currency, a currency
\* code outside the currency table included, the resolved amount is the
\* package's USD price, and 0 when it has no USD price either; the
\* resolution always yields a result.
C16_FallbackChain ==
    probe.fn = "pkgTotal" =>
        /\ (~probe.done => ENABLED callPkgTotal)
        /\ (probe.done /\ currency \notin DOMAIN probe.pkg.price
               => probe.amount = UsdOrZero(probe.pkg))

\* A catalog package priced under a currency code that is in no table.
C16_Witness ==
    /\ probe.fn = "pkgTotal"
    /\ probe.done
    /\ currency = "EUR"
    /\ probe.pkg.id = "m10"
    /\ probe.amount = probe.pkg.price["USD"]
    /\ probe.amount > 0

\* ----------------------------------------------------------------- C17
StartsWith(text, prefix) ==
    /\ Len(prefix) <= Len(text)
    /\ SubSeq(text, 1, Len(prefix)) = prefix

\* C17: the displayed total of a package is the text Free if and only if
\* its resolved amount is 0, under every currency; a zero amount carries no
\* currency symbol or code, and a non-zero amount is the symbol followed by
\* the amount.
C17_FreeIffZero ==
    (probe.fn = "pkgTotal" /\ probe.done) =>
        /\ (probe.text = FREE <=> probe.amount = 0)
        /\ (probe.amount = 0 =>
               \A c \in DOMAIN CURRENCIES :
                  ~StartsWith(probe.text, CURRENCIES[c].symbol))
        /\ (probe.amount # 0 =>
               probe.text = CURRENCIES[safeCurrency].symbol \o Digits(probe.amount))

\* The trial lesson shown in KWD.
C17_Witness ==
    /\ probe.fn = "pkgTotal"
    /\ probe.done
    /\ probe.pkg.id = "t1"
    /\ currency = "KWD"
    /\ probe.amount = 0
    /\ probe.text = FREE

\* ----------------------------------------------------------------- C18
ScheduleSent(field) ==
    Str(IF SchedulingRequired THEN formData[field] ELSE <<>>)

\* C18: every request body has the keys preferredDate and preferredTime;
\* their values are the field values when scheduling is required at submit
\* time and the empty string when it is not, whatever the fields hold.
C18_ScheduleKeys ==
    probe.fn = "handleSubmit" =>
        \A i \in 1..Len(probe.sent) :
           /\ {"preferredDate", "preferredTime"} \subseteq DOMAIN probe.sent[i]
           /\ probe.sent[i].preferredDate = ScheduleSent("preferredDate")
           /\ probe.sent[i].preferredTime = ScheduleSent("preferredTime")

\* A ten-lesson package submitted while the form still holds a date and a
\* time.
C18_Witness ==
    /\ probe.fn = "handleSubmit"
    /\ Len(probe.sent) = 1
    /\ packageId = "m10"
    /\ formData.preferredDate = <<"1">>
    /\ formData.preferredTime = <<"1">>
    /\ probe.sent[1].preferredDate = Str(<<>>)
    /\ probe.sent[1].preferredTime = Str(<<>>)

\* ----------------------------------------------------------------- C19
\* C19: after reset the whole selection holds its initial value, the
\* currency included: whatever currency was chosen before, it is USD again.
C19_ResetRestoresCurrency ==
    [][(currency # "USD" /\ reset) =>
          (typeId' = null /\ packageId' = null /\ currency' = "USD")]_vars

\* ----------------------------------------------------------------- C20
\* What the user can do on the form: edit a field, go back, and submit once
\* the form is valid.
FormUsable ==
    /\ \A f \in TextFields : \E v \in InputValues(f) :
          v # formData[f] /\ ENABLED SetTextField(f, v)
    /\ (needsSchedule =>
           \A f \in ScheduleFields : \E v \in InputValues(f) :
              v # formData[f] /\ ENABLED SetScheduleField(f, v))
    /\ ENABLED BackFromApply
    /\ (isFormValid => SubmitEnabled)

\* Off the form, the way to the form is open.
WayToFormOpen ==
    /\ (step = "type" => \A t \in TypeIds : ENABLED SelectType(t))
    /\ (step = "packages" =>
           \E k \in PackagePositions : ENABLED SelectPackage(k))
    /\ (step = "details" => ENABLED ApplyNow)

\* C20: no failure is terminal.  While the result is error nothing is
\* marked in flight and reset is available; on the form the fields can be
\* edited, Back works and a valid form can be submitted again; on any other
\* step the way to the form is open; and every delivery awaiting its
\* response can still be accepted, which yields success.
C20_ErrorNotTerminal ==
    /\ (submitStatus = "error" =>
           /\ ~isSubmitting
           /\ ENABLED reset
           /\ (step = "apply" => FormUsable)
           /\ (step # "apply" => WayToFormOpen))
    /\ \A i \in 1..Len(calls) :
          calls[i].pc = "fetch" =>
             ENABLED (fetchOk(i) /\ submitStatus' = "success")

\* A failure is shown on a valid form, nothing outstanding: the user can
\* submit again.
C20_Witness ==
    /\ submitStatus = "error"
    /\ step = "apply"
    /\ isFormValid
    /\ SubmitEnabled
    /\ calls = <<>>

BodyComplete(b) ==
    /\ NonBlank(b.fullName.str)
    /\ NonBlank(b.email.str)
    /\ NonBlank(b.phone.str)
    /\ NonBlank(b.country.str)
    /\ (SchedulingRequired => /\ NonBlank(b.preferredDate.str)
                              /\ NonBlank(b.preferredTime.str))

\* C22: submit is enabled exactly when the step is apply, the form is
\* ready and nothing is marked in flight; so every request body handed to
\* fetch has name, e-mail, phone and country non-blank, and date and time
\* non-blank whenever scheduling is required.
C22_SubmitGate ==
    /\ [](SubmitEnabled <=> (step = "apply" /\ ReadyToSubmit /\ ~isSubmitting))
    /\ [][Len(calls') > Len(calls) => BodyComplete(Stringify(payload))]_vars

\* The trial lesson has been submitted from a form with date and time.
C22_Witness ==
    /\ step = "apply"
    /\ typeId = "trial"
    /\ isSubmitting
    /\ Len(calls) = 1
    /\ ~calls[1].stale
    /\ formData.fullName = <<"a">>
    /\ formData.preferredDate = <<"1">>
    /\ formData.preferredTime = <<"1">>

\* ----------------------------------------------------------------- C23
\* The catalog entry of the package chosen under the chosen type.
ChosenEntry ==
    CHOOSE e \in {PACKAGES[typeId][k] : k \in 1..Len(PACKAGES[typeId])} :
       e.id = packageId

SupportedCode == IF currency \in {"USD", "KWD"} THEN currency ELSE "USD"

BodyConsistent(b) ==
    /\ b.currency = Str(SupportedCode)
    /\ b.totalPrice = Num(ChosenEntry.price[SupportedCode])
    /\ (b.displayTotalPrice = Str(FREE) <=> b.totalPrice = Num(0))
    /\ (b.totalPrice # Num(0) =>
           b.displayTotalPrice =
              Str(CURRENCIES[SupportedCode].symbol \o Digits(b.totalPrice.num)))
    /\ b.courseTypeId = Str(typeId)
    /\ b.packageId = Str(packageId)
    /\ b.lessons = Num(ChosenEntry.lessons)
    /\ typeId \in TypeIds
    /\ packageId \in PackageIdsOf(typeId)

\* C23: every request body agrees with the selection and the currency it
\* was built under: its currency is the chosen code, or USD when that code
\* is not supported; totalPrice is the chosen package's price in that
\* currency; displayTotalPrice renders that amount (Free exactly for 0);
\* courseTypeId, packageId and lessons are those of the chosen type and
\* package, and the package is one of the type's.
C23_PayloadConsistent ==
    probe.fn = "handleSubmit" =>
        \A i \in 1..Len(probe.sent) : BodyConsistent(probe.sent[i])

\* A ten-lesson package submitted under a currency code that is in no
\* table goes out in USD.
C23_Witness ==
    /\ probe.fn = "handleSubmit"
    /\ Len(probe.sent) = 1
    /\ currency = "EUR"
    /\ packageId = "m10"
    /\ probe.sent[1].currency = Str("USD")
    /\ probe.sent[1].totalPrice = Num(140)
    /\ probe.sent[1].displayTotalPrice = Str(<<"$", "1", "4", "0">>)

\* ----------------------------------------------------------------- C24
\* C24: while the in-flight flag is set, the delivery of the latest submit
\* is outstanding.  The flag is set only by a step that issues a delivery,
\* and every completion and every reset leaves it cleared; so the flag is
\* never set with nothing pending, however submits, resets and completions
\* interleave.
C24_FlagMeansOutstanding ==
    /\ [](isSubmitting => \E i \in 1..Len(calls) : ~calls[i].stale)
    /\ [][/\ (isSubmitting' /\ ~isSubmitting) => Len(calls') = Len(calls) + 1
          /\ Len(calls') < Len(calls) => ~isSubmitting'
          /\ (isSubmitting /\ reset) => ~isSubmitting']_vars

\* Submit, reset, submit again: the flag is set, the first delivery is
\* still pending beside the second.
C24_Witness ==
    /\ isSubmitting
    /\ Len(calls) = 2
    /\ calls[1].stale
    /\ calls[1].pc = "fetch"
    /\ ~calls[2].stale

\* ----------------------------------------------------------------- C25
NavigationOrEdit ==
    \/ \E t \in TypeIds : SelectType(t)
    \/ BackFromPackages
    \/ \E k \in PackagePositions : SelectPackage(k)
    \/ BackFromDetails
    \/ ApplyNow
    \/ BackFromApply
    \/ \E c \in {"USD", "KWD"} : SetCurrency(c)
    \/ \E f \in TextFields : \E v \in InputValues(f) : SetTextField(f, v)
    \/ \E f \in ScheduleFields : \E v \in InputValues(f) : SetScheduleField(f, v)

\* C25: result, message and in-flight flag change only in a submit, in the
\* completion of a delivery and in reset; choosing a type or a package,
\* going back or forward, choosing a currency and editing a field leave all
\* three as they are, so an earlier result is still shown on the form after
\* such steps.
C25_ResultFrame ==
    [][Result' # Result =>
          /\ ~NavigationOrEdit
          /\ \/ reset
             \/ handleSubmit
             \/ \E i \in 1..Len(calls) : Completes(i)]_vars

\* The confirmation of an earlier submit is still on the form after the
\* name was overwritten with a blank.
C25_Witness ==
    /\ step = "apply"
    /\ submitStatus = "success"
    /\ submitMessage = SUCCESS_MESSAGE
    /\ formData.fullName = <<WS>>
    /\ calls = <<>>

====
